---- MODULE Spec2Model ----
(***************************************************************************)
(* Model of the forum bot's session store (listeners/data_store.py) and of *)
(* the code that drives it (listeners/commands/forum_command.py): the      *)
(* /forum command handler, running on a listener thread, and the           *)
(* threading.Timer callbacks handle_expiry / handle_voting_expiry, each    *)
(* running on a thread of its own.  The store has no lock, so the steps of *)
(* the handler and of the timer callbacks interleave; a step is one call   *)
(* of a store method (check_expiry and check_voting_expiry are two steps:  *)
(* the test of the deadline and the stop it leads to).  The clock is read  *)
(* by every call that needs it, so time may pass between any two steps.    *)
(***************************************************************************)
EXTENDS Integers, Sequences, FiniteSets, TLC

\* ------------------------------------------------------------------ bounds
MaxTime == 2        \* the clock stops here (minutes)
MaxStarts == 2      \* accepted /forum start commands
MaxTopics == 1      \* topics submitted in one session
MaxVotes == 2       \* largest tally a topic is voted up to
MaxDuration == 1    \* largest duration (minutes) given to /forum start
MaxPassTopics == 3  \* topics handed to one scheduling pass
MaxTally == 1       \* largest tally of a topic handed to a scheduling pass
MaxTopK == 2        \* largest TOP_TOPICS_COUNT
MaxDay == 7         \* latest date (days since a Monday) a slot is resolved on
MaxLifeTopics == 2  \* topics of a session that is handed to a scheduling pass

Users == {"U1", "U2"}
Durations == 0..MaxDuration
TopicNums == 0..(MaxTopics + 1)     \* the number typed after "/forum vote"

\* ------------------------------------------------------- values of fields
NoTime == -1        \* end_time / voting_end_time = None
NoTimer == 0        \* current_timer / current_voting_timer = None
NoChannel == "None" \* channel_id = None
Channel == "C1"     \* command.get("channel_id")
NoCmd == [kind |-> "none", g |-> 0, v |-> 0, user |-> "U1", idx |-> 0]

VARIABLES
    now,                     \* datetime.datetime.now(), in minutes
    \* TopicGatheringStore
    active, end_time, channel_id, messages, current_timer,
    voting_active, voting_end_time, current_voting_timer, user_votes,
    voting_duration_minutes,
    \* threading.Timer objects that can still run: id -> [kind, due, pc, dur, sid]
    timers,
    \* the listener thread running forum_command_callback
    cpc,                     \* its position (a line of forum_command.py)
    cmd,                     \* the command it is handling
    resp,                    \* what it answered with respond(...)
    ret,                     \* what add_message / add_vote returned to it
    cdur,                    \* its local voting_duration
    \* history of what was done in the session started last
    session,                 \* number of start_gathering calls so far
    endedPosts,              \* announce_forum_results calls
    votingStarts,            \* start_voting calls
    votingTimers,            \* schedule_voting_expiry calls
    resultsPosts,            \* announce_voting_results calls
    gPayloads,               \* payloads returned by check_expiry
    vPayloads,               \* payloads returned by check_voting_expiry
    gStopped,                \* the gathering phase was stopped by /forum stop
    hadVoting,               \* start_voting was called since the last start
    \* CalendarEventHandler.create_events_for_winning_topics
    topics, votes_by_user,   \* its arguments
    top_topics_count,        \* TOP_TOPICS_COUNT
    slots,                   \* slot_manager.slots, the configuration
    ppc,                     \* its position (a line of calendar_handler.py)
    sorted_topics,           \* the topics (their positions in topics), ranked
    top_topics,              \* sorted_topics[:top_topics_count]
    done,                    \* topics of top_topics the loop has dealt with
    created_events,          \* what the pass returns
    iterations,              \* history: each topic the loop took, its
                             \* attendee_user_ids and what came of it
    passes,                  \* history: calls of create_events_for_winning_topics
    \* TimeSlotManager.get_datetime_for_slot
    slot,                    \* its argument
    today,                   \* datetime.datetime.now().date(), days since a Monday
    daytime,                 \* the time of day of datetime.datetime.now(), in minutes
    start_datetime, end_datetime   \* what it returned

store == <<active, end_time, channel_id, messages, current_timer,
           voting_active, voting_end_time, current_voting_timer, user_votes,
           voting_duration_minutes>>
cthread == <<cpc, cmd, resp, ret, cdur>>
history == <<session, endedPosts, votingStarts, votingTimers, resultsPosts,
             gPayloads, vPayloads, gStopped, hadVoting>>
handler == <<topics, votes_by_user, top_topics_count, slots, ppc,
             sorted_topics, top_topics, done, created_events, iterations,
             passes>>
resolver == <<slot, today, daytime, start_datetime, end_datetime>>
integrations == <<handler, resolver>>
vars == <<now, store, timers, cthread, history, integrations>>

\* ------------------------------------------------------------ the store

TopicMessage(u) == [user_id |-> u, votes |-> 0]

\* self.end_time and datetime.datetime.now() > self.end_time
GatheringExpired == end_time # NoTime /\ now > end_time
VotingExpired == voting_end_time # NoTime /\ now > voting_end_time

\* What is_active() / is_voting_active() return.
is_active == active /\ ~GatheringExpired
is_voting_active == voting_active /\ ~VotingExpired

\* The condition of check_expiry / check_voting_expiry.
ExpiryCond == active /\ GatheringExpired
VotingExpiryCond == voting_active /\ VotingExpired

\* Timer.cancel(): a timer that has not woken up yet never runs its callback;
\* one whose callback is already running is not affected.
Cancel(tm, id) ==
    IF id \in DOMAIN tm /\ tm[id].pc = "armed"
    THEN [i \in DOMAIN tm \ {id} |-> tm[i]]
    ELSE tm

Remove(tm, id) == [i \in DOMAIN tm \ {id} |-> tm[i]]

\* A new Timer object: an id no live timer and no handle of the store has.
FreshId(tm) ==
    CHOOSE i \in 1..(Cardinality(DOMAIN tm) + 3) :
        /\ i \notin DOMAIN tm
        /\ i # current_timer
        /\ i # current_voting_timer
        /\ \A j \in 1..(i - 1) :
              j \in DOMAIN tm \/ j = current_timer \/ j = current_voting_timer

NewTimer(kind, minutes) ==
    [kind |-> kind, due |-> now + minutes, pc |-> "armed",
     dur |-> 0, sid |-> 0]

\* Counts what was done for the session running now.
Bump(n, s) == IF s = session THEN n + 1 ELSE n

\* is_active() as a statement: the flag is cleared when the deadline has passed.
IsActiveEffect == active' = (active /\ ~GatheringExpired)
IsVotingActiveEffect == voting_active' = (voting_active /\ ~VotingExpired)


\* The store's methods, as the changes they make to the store.  The caller
\* states timers' (a stop cancels a timer) and the fields it leaves alone.

\* A start_gathering that leaves the vote ledger of the session before.
start_gathering_keeps_votes(g, v, ch) ==
    /\ active' = TRUE
    /\ voting_active' = FALSE
    /\ end_time' = now + g
    /\ channel_id' = ch
    /\ messages' = <<>>
    /\ voting_duration_minutes' = v
    /\ UNCHANGED <<user_votes, current_timer, voting_end_time,
                   current_voting_timer>>

\* A start_gathering that leaves the topics and votes of the session before.
start_gathering_keeps_topics(g, v, ch) ==
    /\ active' = TRUE
    /\ voting_active' = FALSE
    /\ end_time' = now + g
    /\ channel_id' = ch
    /\ voting_duration_minutes' = v
    /\ UNCHANGED <<messages, user_votes, current_timer, voting_end_time,
                   current_voting_timer>>

\* start_gathering(duration_minutes, voting_duration_minutes, channel_id)
start_gathering(g, v, ch) ==
    /\ active' = TRUE
    /\ voting_active' = FALSE
    /\ end_time' = now + g
    /\ channel_id' = ch
    /\ messages' = <<>>
    /\ user_votes' = [u \in Users |-> {}]
    /\ voting_duration_minutes' = v
    /\ UNCHANGED <<current_timer, voting_end_time, current_voting_timer>>

\* A stop_gathering() that cancels the timer and leaves the phase as it is.
stop_gathering_keeps_phase ==
    /\ current_timer' = NoTimer
    /\ UNCHANGED <<active, end_time, channel_id, messages, voting_active, voting_end_time,
                   current_voting_timer, user_votes, voting_duration_minutes>>

\* stop_gathering(); the timers it leaves are Cancel(timers, current_timer)
stop_gathering ==
    /\ active' = FALSE
    /\ end_time' = NoTime
    /\ current_timer' = NoTimer
    /\ UNCHANGED <<channel_id, messages, voting_active, voting_end_time,
                   current_voting_timer, user_votes, voting_duration_minutes>>

\* start_voting(duration_minutes)
start_voting(d) ==
    /\ voting_active' = TRUE
    /\ voting_end_time' = now + d
    /\ UNCHANGED <<active, end_time, channel_id, messages, current_timer,
                   current_voting_timer, user_votes, voting_duration_minutes>>

\* stop_voting(); the timers it leaves are Cancel(timers, current_voting_timer)
stop_voting ==
    /\ voting_active' = FALSE
    /\ voting_end_time' = NoTime
    /\ current_voting_timer' = NoTimer
    /\ UNCHANGED <<active, end_time, channel_id, messages, current_timer,
                   user_votes, voting_duration_minutes>>

\* A call of is_active() and nothing else.
call_is_active ==
    /\ IsActiveEffect
    /\ UNCHANGED <<end_time, channel_id, messages, current_timer, voting_active,
                   voting_end_time, current_voting_timer, user_votes,
                   voting_duration_minutes>>

\* A call of is_voting_active() and nothing else.
call_is_voting_active ==
    /\ IsVotingActiveEffect
    /\ UNCHANGED <<active, end_time, channel_id, messages, current_timer,
                   voting_end_time, current_voting_timer, user_votes,
                   voting_duration_minutes>>

\* An add_message that reads the flag and not the deadline.
add_message_reads_flag == active

\* add_message(user_id, text): TRUE when the topic was appended.
add_message_accepts == is_active

add_message(u) ==
    /\ IsActiveEffect
    /\ messages' = IF add_message_accepts
                   THEN Append(messages, TopicMessage(u))
                   ELSE messages
    /\ UNCHANGED <<end_time, channel_id, current_timer, voting_active,
                   voting_end_time, current_voting_timer, user_votes,
                   voting_duration_minutes>>

\* An add_vote that reads the flag and not the deadline.
add_vote_reads_flag(i) == voting_active /\ ~(i < 0 \/ i >= Len(messages))

\* An add_vote that tests the index only.
add_vote_any_phase(i) == ~(i < 0 \/ i >= Len(messages))

\* add_vote(user_id, topic_index), topic_index counted from 0: TRUE when the
\* vote was recorded.
add_vote_accepts(i) == is_voting_active /\ ~(i < 0 \/ i >= Len(messages))

\* An add_vote that counts the vote and does not note who cast it.
add_vote_forgets_voter(u, i) ==
    /\ IsVotingActiveEffect
    /\ IF add_vote_accepts(i)
       THEN /\ user_votes' = user_votes
            /\ messages' = [messages EXCEPT
                              ![i + 1] = [@ EXCEPT !.votes = @ + 1]]
       ELSE UNCHANGED <<user_votes, messages>>
    /\ UNCHANGED <<active, end_time, channel_id, current_timer,
                   voting_end_time, current_voting_timer,
                   voting_duration_minutes>>

add_vote(u, i) ==
    /\ IsVotingActiveEffect
    /\ IF add_vote_accepts(i)
       THEN /\ user_votes' = [user_votes EXCEPT ![u] = @ \cup {i}]
            /\ messages' = [messages EXCEPT
                              ![i + 1] = [@ EXCEPT !.votes = @ + 1]]
       ELSE UNCHANGED <<user_votes, messages>>
    /\ UNCHANGED <<active, end_time, channel_id, current_timer,
                   voting_end_time, current_voting_timer,
                   voting_duration_minutes>>

\* get_users_by_topic_vote()[i]: the users whose vote set holds index i.
VotersOf(i) == {u \in Users : i \in user_votes[u]}

\* schedule_expiry(duration_minutes): a new timer, kept in current_timer.
schedule_expiry(tm, minutes) ==
    LET id == FreshId(tm) IN
    /\ timers' = [i \in DOMAIN tm \cup {id} |->
                    IF i = id THEN NewTimer("gathering", minutes) ELSE tm[i]]
    /\ current_timer' = id

\* schedule_voting_expiry(duration_minutes)
schedule_voting_expiry(tm, minutes) ==
    LET id == FreshId(tm) IN
    /\ timers' = [i \in DOMAIN tm \cup {id} |->
                    IF i = id THEN NewTimer("voting", minutes) ELSE tm[i]]
    /\ current_voting_timer' = id

\* --------------------------------------------------------------- the clock

Tick ==
    /\ now < MaxTime
    /\ now' = now + 1
    /\ UNCHANGED <<store, timers, cthread, history>>
    /\ UNCHANGED integrations

\* ------------------------------------- forum_command_callback, line by line

Commands ==
    [kind : {"start"}, g : Durations, v : Durations, user : {"U1"}, idx : {0}]
    \cup [kind : {"stop", "status"}, g : {0}, v : {0}, user : {"U1"}, idx : {0}]
    \cup [kind : {"suggest"}, g : {0}, v : {0}, user : Users, idx : {0}]
    \cup [kind : {"vote"}, g : {0}, v : {0}, user : Users, idx : TopicNums]

\* The branch of the handler that command_text selects (lines 150-299).
Branch(c) ==
    CASE c.kind = "start" -> "L157"
      [] c.kind = "stop" -> "L185"
      [] c.kind = "status" -> "L212"
      [] c.kind = "suggest" -> "L227"
      [] OTHER -> "L272"

\* A command arrives (the guards keep the model finite).
BeginCommand(c) ==
    /\ cpc = "idle"
    /\ c.kind = "start" => session < MaxStarts
    /\ c.kind = "suggest" => Len(messages) < MaxTopics
    /\ c.kind = "vote" => \A i \in DOMAIN messages : messages[i].votes < MaxVotes
    /\ cmd' = c
    /\ cpc' = "L124"
    /\ resp' = "none"
    /\ ret' = "none"
    /\ cdur' = 0
    /\ UNCHANGED <<now, store, timers, history>>
    /\ UNCHANGED integrations

\* Line 124 (and 234): check_expiry() tests the deadline ...
\* ret notes a None that follows a payload already returned in this session.
CmdCheckExpiry(at, hit, miss) ==
    /\ cpc = at
    /\ cpc' = IF ExpiryCond THEN hit ELSE miss
    /\ ret' = IF ExpiryCond THEN ret
              ELSE IF gPayloads >= 1 THEN "None_again" ELSE "None"
    /\ UNCHANGED <<now, store, timers, cmd, resp, cdur, history>>
    /\ UNCHANGED integrations

\* ... and, past it, calls stop_gathering() and returns the payload; lines
\* 125-133: the topics are announced and voting_duration is read.
CmdExpiryStop ==
    /\ cpc = "L124s"
    /\ stop_gathering
    /\ timers' = Cancel(timers, current_timer)
    /\ gPayloads' = Bump(gPayloads, session)
    /\ IF channel_id # NoChannel /\ Len(messages) > 0
       THEN /\ endedPosts' = Bump(endedPosts, session)
            /\ cdur' = voting_duration_minutes
            /\ cpc' = "L134"
       ELSE /\ cpc' = "L142"
            /\ UNCHANGED <<endedPosts, cdur>>
    /\ UNCHANGED <<now, cmd, resp, ret, session, votingStarts, votingTimers,
                   resultsPosts, vPayloads, gStopped, hadVoting>>
    /\ UNCHANGED integrations

\* Lines 134, 196, 244: start_voting(voting_duration), announce_voting_start.
CmdStartVoting(at, next) ==
    /\ cpc = at
    /\ start_voting(cdur)
    /\ votingStarts' = Bump(votingStarts, session)
    /\ hadVoting' = TRUE
    /\ cpc' = next
    /\ UNCHANGED <<now, timers, cmd, resp, ret, cdur, session,
                   endedPosts, votingTimers, resultsPosts, gPayloads, vPayloads,
                   gStopped>>
    /\ UNCHANGED integrations

\* Lines 139, 198, 247: schedule_voting_expiry(voting_duration).
CmdScheduleVoting(at, next, answer) ==
    /\ cpc = at
    /\ schedule_voting_expiry(timers, cdur)
    /\ votingTimers' = Bump(votingTimers, session)
    /\ cpc' = next
    /\ resp' = IF answer = "" THEN resp ELSE answer
    /\ cdur' = 0
    /\ UNCHANGED <<now, active, end_time, channel_id, messages, current_timer,
                   voting_active, voting_end_time, user_votes,
                   voting_duration_minutes, cmd, ret, session,
                   endedPosts, votingStarts, resultsPosts, gPayloads, vPayloads,
                   gStopped, hadVoting>>
    /\ UNCHANGED integrations

\* Line 142: check_voting_expiry() tests the voting deadline ...
CmdCheckVotingExpiry ==
    /\ cpc = "L142"
    /\ cpc' = IF VotingExpiryCond THEN "L142s" ELSE Branch(cmd)
    /\ ret' = "none"
    /\ UNCHANGED <<now, store, timers, cmd, resp, cdur, history>>
    /\ UNCHANGED integrations

\* ... and, past it, calls stop_voting(); lines 143-147 announce the results.
CmdVotingExpiryStop ==
    /\ cpc = "L142s"
    /\ stop_voting
    /\ timers' = Cancel(timers, current_voting_timer)
    /\ vPayloads' = Bump(vPayloads, session)
    /\ resultsPosts' = IF channel_id # NoChannel
                       THEN Bump(resultsPosts, session) ELSE resultsPosts
    /\ cpc' = Branch(cmd)
    /\ UNCHANGED <<now, cmd, resp, ret, cdur, session, endedPosts,
                   votingStarts, votingTimers, gPayloads, gStopped, hadVoting>>
    /\ UNCHANGED integrations

\* Line 157, "start": store.is_active() ...
StartRejectsActive == is_active

CmdStartCheckActive ==
    /\ cpc = "L157"
    /\ call_is_active
    /\ IF StartRejectsActive
       THEN cpc' = "done" /\ resp' = "already_active"
       ELSE cpc' = "L157v" /\ resp' = resp
    /\ UNCHANGED <<now, timers, cmd, ret, cdur, history>>
    /\ UNCHANGED integrations

\* A start branch that tests the gathering phase only.
StartIgnoresVoting == FALSE

\* ... or store.is_voting_active(): the session is already running.
StartRejectsVoting == is_voting_active

CmdStartCheckVoting ==
    /\ cpc = "L157v"
    /\ call_is_voting_active
    /\ IF StartRejectsVoting
       THEN cpc' = "done" /\ resp' = "already_active"
       ELSE cpc' = "L163" /\ resp' = resp
    /\ UNCHANGED <<now, timers, cmd, ret, cdur, history>>
    /\ UNCHANGED integrations

\* Line 163: start_gathering(gathering_duration, voting_duration, channel_id).
CmdStartGathering ==
    /\ cpc = "L163"
    /\ start_gathering(cmd.g, cmd.v, Channel)
    /\ session' = session + 1
    /\ endedPosts' = 0
    /\ votingStarts' = 0
    /\ votingTimers' = 0
    /\ resultsPosts' = 0
    /\ gPayloads' = 0
    /\ vPayloads' = 0
    /\ gStopped' = FALSE
    /\ hadVoting' = FALSE
    /\ cpc' = "L166"
    /\ UNCHANGED <<now, timers, cmd, resp, ret, cdur>>
    /\ UNCHANGED integrations

\* Line 166: schedule_expiry(gathering_duration); lines 168-182 answer.
CmdScheduleExpiry ==
    /\ cpc = "L166"
    /\ schedule_expiry(timers, cmd.g)
    /\ resp' = "started"
    /\ cpc' = "done"
    /\ UNCHANGED <<now, active, end_time, channel_id, messages, voting_active,
                   voting_end_time, current_voting_timer, user_votes,
                   voting_duration_minutes, cmd, ret, cdur, history>>
    /\ UNCHANGED integrations

\* Line 185, "stop": store.is_active().
CmdStopCheckActive ==
    /\ cpc = "L185"
    /\ call_is_active
    /\ cpc' = IF is_active THEN "L186" ELSE "L200"
    /\ UNCHANGED <<now, timers, cmd, resp, ret, cdur, history>>
    /\ UNCHANGED integrations

\* Lines 186-195: stop_gathering(), the answer, announce_forum_results.
CmdStopGathering ==
    /\ cpc = "L186"
    /\ stop_gathering
    /\ timers' = Cancel(timers, current_timer)
    /\ resp' = "gathering_ended"
    /\ gStopped' = TRUE
    /\ endedPosts' = IF channel_id # NoChannel
                     THEN Bump(endedPosts, session) ELSE endedPosts
    /\ IF channel_id # NoChannel /\ Len(messages) > 0
       THEN cdur' = voting_duration_minutes /\ cpc' = "L196"
       ELSE cdur' = cdur /\ cpc' = "done"
    /\ UNCHANGED <<now, cmd, ret, session, votingStarts, votingTimers,
                   resultsPosts, gPayloads, vPayloads, hadVoting>>
    /\ UNCHANGED integrations

\* Line 200: store.is_voting_active().
CmdStopCheckVoting ==
    /\ cpc = "L200"
    /\ call_is_voting_active
    /\ IF is_voting_active
       THEN cpc' = "L201" /\ resp' = resp
       ELSE cpc' = "done" /\ resp' = "no_session"
    /\ UNCHANGED <<now, timers, cmd, ret, cdur, history>>
    /\ UNCHANGED integrations

\* Lines 201-206: stop_voting(), the answer, announce_voting_results.
CmdStopVoting ==
    /\ cpc = "L201"
    /\ stop_voting
    /\ timers' = Cancel(timers, current_voting_timer)
    /\ resp' = "voting_ended"
    /\ resultsPosts' = IF channel_id # NoChannel
                       THEN Bump(resultsPosts, session) ELSE resultsPosts
    /\ cpc' = "done"
    /\ UNCHANGED <<now, cmd, ret, cdur, session, endedPosts,
                   votingStarts, votingTimers, gPayloads, vPayloads, gStopped,
                   hadVoting>>
    /\ UNCHANGED integrations

\* Lines 212-217, "status": store.is_active().
CmdStatusCheckActive ==
    /\ cpc = "L212"
    /\ call_is_active
    /\ IF is_active
       THEN cpc' = "done" /\ resp' = "gathering_status"
       ELSE cpc' = "L218" /\ resp' = resp
    /\ UNCHANGED <<now, timers, cmd, ret, cdur, history>>
    /\ UNCHANGED integrations

\* Lines 218-223: store.is_voting_active().
CmdStatusCheckVoting ==
    /\ cpc = "L218"
    /\ call_is_voting_active
    /\ resp' = IF is_voting_active THEN "voting_status" ELSE "no_session"
    /\ cpc' = "done"
    /\ UNCHANGED <<now, timers, cmd, ret, cdur, history>>
    /\ UNCHANGED integrations

\* Lines 227-231, "suggest": not during voting.
CmdSuggestCheckVoting ==
    /\ cpc = "L227"
    /\ call_is_voting_active
    /\ IF is_voting_active
       THEN cpc' = "done" /\ resp' = "voting_period"
       ELSE cpc' = "L234" /\ resp' = resp
    /\ UNCHANGED <<now, timers, cmd, ret, cdur, history>>
    /\ UNCHANGED integrations

\* Lines 234-252: check_expiry() found the deadline passed: stop_gathering(),
\* announce_forum_results, and voting when there are topics.
CmdSuggestExpiryStop ==
    /\ cpc = "L234s"
    /\ stop_gathering
    /\ timers' = Cancel(timers, current_timer)
    /\ gPayloads' = Bump(gPayloads, session)
    /\ endedPosts' = IF channel_id # NoChannel
                     THEN Bump(endedPosts, session) ELSE endedPosts
    /\ IF channel_id # NoChannel /\ Len(messages) > 0
       THEN cdur' = voting_duration_minutes /\ cpc' = "L244" /\ resp' = resp
       ELSE cdur' = cdur /\ cpc' = "done" /\ resp' = "expired"
    /\ UNCHANGED <<now, cmd, ret, session, votingStarts, votingTimers,
                   resultsPosts, vPayloads, gStopped, hadVoting>>
    /\ UNCHANGED integrations

\* Lines 254-256: store.is_active().
CmdSuggestCheckActive ==
    /\ cpc = "L254"
    /\ call_is_active
    /\ IF is_active
       THEN cpc' = "L266" /\ resp' = resp
       ELSE cpc' = "done" /\ resp' = "not_active"
    /\ UNCHANGED <<now, timers, cmd, ret, cdur, history>>
    /\ UNCHANGED integrations

\* Lines 266-269: add_message(user_id, topic_text); its result is not read.
CmdAddMessage ==
    /\ cpc = "L266"
    /\ add_message(cmd.user)
    /\ ret' = IF add_message_accepts THEN "True" ELSE "False"
    /\ resp' = "recorded"
    /\ cpc' = "done"
    /\ UNCHANGED <<now, timers, cmd, cdur, history>>
    /\ UNCHANGED integrations

\* Lines 272-283, "vote": is_voting_active(), then the number is checked.
VoteIndexInvalid(i) == i < 0 \/ i >= Len(messages)

CmdVoteCheck ==
    /\ cpc = "L272"
    /\ call_is_voting_active
    /\ IF ~is_voting_active
       THEN cpc' = "done" /\ resp' = "no_voting"
       ELSE IF VoteIndexInvalid(cmd.idx - 1)
            THEN cpc' = "done" /\ resp' = "invalid_number"
            ELSE cpc' = "L287" /\ resp' = resp
    /\ UNCHANGED <<now, timers, cmd, ret, cdur, history>>
    /\ UNCHANGED integrations

\* Lines 287-294: add_vote(user_id, topic_idx); its result is not read, and
\* store.messages[topic_idx] raises IndexError when the topic is gone.
CmdAddVote ==
    /\ cpc = "L287"
    /\ add_vote(cmd.user, cmd.idx - 1)
    /\ ret' = IF add_vote_accepts(cmd.idx - 1) THEN "True" ELSE "False"
    /\ resp' = IF cmd.idx - 1 < Len(messages) THEN "voted" ELSE "error"
    /\ cpc' = "done"
    /\ UNCHANGED <<now, timers, cmd, cdur, history>>
    /\ UNCHANGED integrations

\* The handler returns; the thread waits for the next command.
CmdReturn ==
    /\ cpc = "done"
    /\ cpc' = "idle"
    /\ cmd' = NoCmd
    /\ resp' = "none"
    /\ ret' = "none"
    /\ cdur' = 0
    /\ UNCHANGED <<now, store, timers, history>>
    /\ UNCHANGED integrations

\* ------------------------------------------------- the timer callbacks

\* threading.Timer wakes up after its interval (the deadline was computed
\* before the timer was started, so it is past) and, not cancelled, calls
\* handle_expiry, line 61: check_expiry() tests the deadline.
TimerDue(t) == now > timers[t].due

HandleExpiry(t) ==
    /\ t \in DOMAIN timers
    /\ timers[t].kind = "gathering"
    /\ timers[t].pc = "armed"
    /\ TimerDue(t)
    /\ timers' = IF ExpiryCond
                 THEN [timers EXCEPT ![t].pc = "L61s"]
                 ELSE Remove(timers, t)
    /\ UNCHANGED <<now, store, cthread, history>>
    /\ UNCHANGED integrations

\* check_expiry() calls stop_gathering() and returns the payload; lines 63-72.
TimerExpiryStop(t) ==
    /\ t \in DOMAIN timers
    /\ timers[t].pc = "L61s"
    /\ stop_gathering
    /\ gPayloads' = Bump(gPayloads, session)
    /\ IF channel_id # NoChannel /\ Len(messages) > 0
       THEN /\ endedPosts' = Bump(endedPosts, session)
            /\ timers' = [Cancel(timers, current_timer) EXCEPT
                            ![t] = [@ EXCEPT !.pc = "L73",
                                             !.dur = voting_duration_minutes,
                                             !.sid = session]]
       ELSE /\ timers' = Remove(Cancel(timers, current_timer), t)
            /\ UNCHANGED endedPosts
    /\ UNCHANGED <<now, cthread, session, votingStarts, votingTimers,
                   resultsPosts, vPayloads, gStopped, hadVoting>>
    /\ UNCHANGED integrations

\* Lines 73-75: start_voting(voting_duration), announce_voting_start.
TimerStartVoting(t) ==
    /\ t \in DOMAIN timers
    /\ timers[t].pc = "L73"
    /\ start_voting(timers[t].dur)
    /\ votingStarts' = Bump(votingStarts, timers[t].sid)
    /\ hadVoting' = TRUE
    /\ timers' = [timers EXCEPT ![t].pc = "L78"]
    /\ UNCHANGED <<now, cthread, session, endedPosts, votingTimers,
                   resultsPosts, gPayloads, vPayloads, gStopped>>
    /\ UNCHANGED integrations

\* Line 78: schedule_voting_expiry(voting_duration); the callback returns.
TimerScheduleVoting(t) ==
    /\ t \in DOMAIN timers
    /\ timers[t].pc = "L78"
    /\ schedule_voting_expiry(Remove(timers, t), timers[t].dur)
    /\ votingTimers' = Bump(votingTimers, timers[t].sid)
    /\ UNCHANGED <<now, active, end_time, channel_id, messages, current_timer,
                   voting_active, voting_end_time, user_votes,
                   voting_duration_minutes, cthread, session, endedPosts,
                   votingStarts, resultsPosts, gPayloads, vPayloads, gStopped,
                   hadVoting>>
    /\ UNCHANGED integrations

\* handle_voting_expiry, line 84: check_voting_expiry() tests the deadline.
HandleVotingExpiry(t) ==
    /\ t \in DOMAIN timers
    /\ timers[t].kind = "voting"
    /\ timers[t].pc = "armed"
    /\ TimerDue(t)
    /\ timers' = IF VotingExpiryCond
                 THEN [timers EXCEPT ![t].pc = "L84s"]
                 ELSE Remove(timers, t)
    /\ UNCHANGED <<now, store, cthread, history>>
    /\ UNCHANGED integrations

\* check_voting_expiry() calls stop_voting(); lines 86-91 announce the results.
TimerVotingStop(t) ==
    /\ t \in DOMAIN timers
    /\ timers[t].pc = "L84s"
    /\ stop_voting
    /\ timers' = Remove(Cancel(timers, current_voting_timer), t)
    /\ vPayloads' = Bump(vPayloads, session)
    /\ resultsPosts' = IF channel_id # NoChannel
                       THEN Bump(resultsPosts, session) ELSE resultsPosts
    /\ UNCHANGED <<now, cthread, session, endedPosts, votingStarts,
                   votingTimers, gPayloads, gStopped, hadVoting>>
    /\ UNCHANGED integrations

\* ------------------------------------------------ integrations/time_slots.py

\* A date is a number of days since some Monday, so that date.weekday() is
\* the date modulo 7 (0 = Monday); a datetime is a date with hour and minute.
weekday(d) == d % 7

\* "HH:MM" as its four digits; _parse_time splits at the colon and reads the
\* two numbers.
parse_time(str) == <<str[1] * 10 + str[2], str[3] * 10 + str[4]>>

day_mapping ==
    [d \in {"Monday", "Tuesday", "Wednesday", "Thursday", "Friday",
            "Saturday", "Sunday"} |->
        CASE d = "Monday" -> 0
          [] d = "Tuesday" -> 1
          [] d = "Wednesday" -> 2
          [] d = "Thursday" -> 3
          [] d = "Friday" -> 4
          [] d = "Saturday" -> 5
          [] OTHER -> 6]

NoSlot == [day_of_week |-> "None", start_time |-> <<0, 0, 0, 0>>,
           end_time |-> <<0, 0, 0, 0>>]
NoDatetime == [date |-> -1, hour |-> 0, minute |-> 0]

\* The slots a configuration file can hold: a day name and two times.
TimeStrings == {<<0, 0, 0, 0>>, <<0, 9, 3, 0>>, <<2, 3, 5, 9>>}
WeekSlots ==
    [day_of_week : DOMAIN day_mapping, start_time : TimeStrings,
     end_time : {<<2, 3, 5, 9>>}]
\* ... and one whose day name day_mapping does not know.
BadSlot == [day_of_week |-> "Funday", start_time |-> <<0, 9, 3, 0>>,
            end_time |-> <<2, 3, 5, 9>>]

\* ... and one whose start is no time of day ("25:00"): datetime() raises
\* ValueError, as int() and the unpacking of _parse_time do for a string that
\* is not two numbers with a colon between them.
MalformedSlot == [day_of_week |-> "Wednesday", start_time |-> <<2, 5, 0, 0>>,
                  end_time |-> <<2, 3, 5, 9>>]

GoodSlot == [day_of_week |-> "Wednesday", start_time |-> <<0, 9, 3, 0>>,
             end_time |-> <<2, 3, 5, 9>>]

\* The string gives an hour and a minute that datetime.datetime(...) accepts.
time_ok(str) ==
    /\ Len(str) = 4
    /\ parse_time(str)[1] < 24
    /\ parse_time(str)[2] < 60

\* A days_ahead that lets the slot fall on today.
days_ahead_same_day(target_day, current_weekday) ==
    (target_day - current_weekday) % 7

\* Lines 86-89: the days until the next occurrence of target_day.
days_ahead(target_day, current_weekday) ==
    LET d == (target_day - current_weekday) % 7 IN
    IF d = 0 THEN 7 ELSE d

\* get_datetime_for_slot(slot), called on the date td: what it returns, or
\* raised when the day name is not one of day_mapping or a time is malformed
\* (ValueError).
get_datetime_for_slot(sl, td) ==
    IF \/ sl.day_of_week \notin DOMAIN day_mapping
       \/ ~time_ok(sl.start_time)
       \/ ~time_ok(sl.end_time)
    THEN [raised |-> TRUE, start |-> NoDatetime, end |-> NoDatetime]
    ELSE LET event_date ==
                 td + days_ahead(day_mapping[sl.day_of_week], weekday(td))
             st == parse_time(sl.start_time)
             en == parse_time(sl.end_time)
         IN [raised |-> FALSE,
             start |-> [date |-> event_date, hour |-> st[1], minute |-> st[2]],
             end |-> [date |-> event_date, hour |-> en[1], minute |-> en[2]]]

\* A get_next_slot that falls back on a slot of its own.
get_next_slot_default(sl) ==
    IF sl = <<>> THEN {GoodSlot} ELSE {sl[i] : i \in DOMAIN sl}

\* get_next_slot(): None (NoSlot) without slots, else random.choice(slots);
\* the set of the values it can return.
get_next_slot(sl) ==
    IF sl = <<>> THEN {NoSlot} ELSE {sl[i] : i \in DOMAIN sl}

\* A call of get_datetime_for_slot(sl) on its own.
ResolveSlot(sl) ==
    /\ slot = NoSlot
    /\ slot' = sl
    /\ LET r == get_datetime_for_slot(sl, today) IN
       /\ ~r.raised
       /\ start_datetime' = r.start
       /\ end_datetime' = r.end
    /\ UNCHANGED <<today, daytime>>
    /\ UNCHANGED <<now, store, timers, cthread, history, handler>>

\* ------------------------------------------ integrations/calendar_handler.py

\* The arguments of a scheduling pass.  A topic is a TopicMessage with all its
\* fields; text and timestamp tell two topics of one author apart (the
\* timestamps of a list never decrease: each is the clock at submission).
Timestamps == {0, 1}
TopicMessages ==
    [user_id : Users, text : {"a"}, timestamp : Timestamps,
     votes : 0..MaxTally]
InTimeOrder(tp) ==
    \A i, j \in DOMAIN tp : i < j => tp[i].timestamp <= tp[j].timestamp
TopicLists ==
    {tp \in UNION {[1..n -> TopicMessages] : n \in 0..MaxPassTopics} :
        InTimeOrder(tp)}
\* votes_by_user: the topic indices (from 0) each user voted for.
Ledgers(n) == [Users -> SUBSET (0..(n - 1))]
TopCounts == 0..MaxTopK
SlotConfigs == {<<>>, <<GoodSlot>>, <<GoodSlot, BadSlot, MalformedSlot>>}
\* What the gateway does for a topic.  create_calendar_event returns None (a
\* status that is not 2xx, or requests.post raised), raises (no token), or
\* returns the event; the event has its webLink or get_event_link got it
\* ("event"), or get_event_link returned "" (a status that is not 200, or
\* requests.get raised: "link_empty"), or raised (no token: "link_raises").
GatewayResults == {"event", "None", "raises", "link_empty", "link_raises"}

\* A sort that puts a topic before the earlier topics of the same tally.
ranks_before_strict(a, b) == a.votes > b.votes

\* sorted(topics, key=lambda x: x.votes, reverse=True): topic a, earlier in
\* the list, stays before topic b unless b has more votes (the sort is stable).
ranks_before(a, b) == a.votes >= b.votes

\* s ranks the first topics of tp (by position); topic i is put in.
InsertRanked(s, i, tp) ==
    LET p == Cardinality({k \in DOMAIN s : ranks_before(tp[s[k]], tp[i])}) IN
    SubSeq(s, 1, p) \o <<i>> \o SubSeq(s, p + 1, Len(s))

RECURSIVE sorted_by_votes(_, _)
sorted_by_votes(tp, n) ==
    IF n = 0 THEN <<>>
    ELSE InsertRanked(sorted_by_votes(tp, n - 1), n, tp)

\* A slice that takes one topic too many.
slice_one_more(s, k) == SubSeq(s, 1, IF k + 1 < Len(s) THEN k + 1 ELSE Len(s))

\* s[:k] for k >= 0
slice(s, k) == SubSeq(s, 1, IF k < Len(s) THEN k ELSE Len(s))

\* topics.index(topic), counted from 0: the first element EQUAL to topic, and
\* TopicMessage is a dataclass, so equal means equal in every field.
index(tp, topic) ==
    (CHOOSE j \in DOMAIN tp :
        tp[j] = topic /\ \A i \in 1..(j - 1) : tp[i] # topic) - 1

\* Lines 59-68: the attendees of the topic at position p of tp.
attendees(tp, vbu, p) ==
    LET topic_index == index(tp, tp[p]) IN
    {u \in Users : topic_index \in vbu[u]} \cup {tp[p].user_id}

\* A loop that a raised exception ends.
after_topic_aborts(r, d) ==
    IF r \in {"raises", "bad_slot"} THEN Len(top_topics) ELSE d + 1

\* The loop goes on with the next topic whatever happened to this one: the
\* continue of line 79 and the except of line 121 are inside the loop.
after_topic(r, d) == d + 1

\* A pass that resolves the slot before its try statement.
escapes_slot_error(outcome) == outcome = "bad_slot"

\* The outcomes of a topic that leave the pass as an exception: none, since
\* lines 83-120 (get_datetime_for_slot, create_calendar_event, get_event_link)
\* are inside the try of line 82, whose except catches Exception, and
\* get_next_slot does not raise.
escapes(outcome) == FALSE

\* Lines 48-54: the call, the sort and the slice.
CreateEvents ==
    /\ ppc = "idle"
    /\ sorted_topics' = sorted_by_votes(topics, Len(topics))
    /\ top_topics' = slice(sorted_topics', top_topics_count)
    /\ created_events' = <<>>
    /\ done' = 0
    /\ passes' = passes + 1
    /\ ppc' = "L57"
    /\ UNCHANGED <<topics, votes_by_user, top_topics_count, slots, iterations>>
    /\ UNCHANGED <<now, store, timers, cthread, history, resolver>>

\* A pass that enters a created event once for each of its attendees.
NewEvents_per_attendee(p, who, sl, r) ==
    IF ~get_datetime_for_slot(sl, today).raised /\ r \in {"event", "link_empty"}
    THEN LET e == [topic |-> p,
                   event_link |-> IF r = "event" THEN "link" ELSE "",
                   start_time |-> get_datetime_for_slot(sl, today).start,
                   day |-> sl.day_of_week,
                   attendees |-> who]
         IN IF Cardinality(who) > 1 THEN <<e, e>> ELSE <<e>>
    ELSE <<>>

\* Lines 82-122 for the topic at position p with slot sl: get_datetime_for_slot
\* and create_calendar_event, whose result is r; what is appended to
\* created_events.
NewEvents(p, who, sl, r) ==
    IF ~get_datetime_for_slot(sl, today).raised /\ r \in {"event", "link_empty"}
    THEN <<[topic |-> p,
            event_link |-> IF r = "event" THEN "link" ELSE "",
            start_time |-> get_datetime_for_slot(sl, today).start,
            day |-> sl.day_of_week,
            attendees |-> who]>>
    ELSE <<>>

\* Lines 57-122, one turn of the loop: the next topic, its attendees, its slot
\* (without one the topic is skipped), the slot's date and the gateway call.
LoopTopic ==
    /\ ppc = "L57"
    /\ done < Len(top_topics)
    /\ LET p == top_topics[done + 1]
           who == attendees(topics, votes_by_user, p)
       IN \E sl \in get_next_slot(slots), r \in GatewayResults :
             LET outcome ==
                     IF sl = NoSlot THEN "no_slot"
                     ELSE IF get_datetime_for_slot(sl, today).raised
                          THEN "bad_slot"
                          ELSE r
             IN /\ outcome \in GatewayResults \/ r = "None"
                /\ iterations' =
                      Append(iterations,
                             [topic |-> p, attendees |-> who, outcome |-> outcome])
                /\ created_events' =
                      IF sl = NoSlot THEN created_events
                      ELSE created_events \o NewEvents(p, who, sl, r)
                /\ done' = after_topic(outcome, done)
                /\ ppc' = IF escapes(outcome) THEN "raised" ELSE ppc
    /\ UNCHANGED <<topics, votes_by_user, top_topics_count, slots,
                   sorted_topics, top_topics, passes>>
    /\ UNCHANGED <<now, store, timers, cthread, history, resolver>>

\* Line 124: the loop is over and the pass returns created_events.
Returned == ppc = "L57" /\ done >= Len(top_topics)

\* ------------------------------- a session handed to a scheduling pass
\* The store driven through one lifecycle by calls of its methods, in the
\* order forum_command.py calls them, and then create_events_for_winning_topics
\* called on store.messages and store.user_votes (the call a user of the two
\* classes makes; the bot itself makes none).

\* start_gathering, as line 163 calls it.
LifeStart ==
    /\ session = 0
    /\ \E g \in Durations, v \in Durations : start_gathering(g, v, Channel)
    /\ session' = 1
    /\ UNCHANGED <<now, timers, cthread, endedPosts, votingStarts,
                   votingTimers, resultsPosts, gPayloads, vPayloads, gStopped,
                   hadVoting>>
    /\ UNCHANGED integrations

\* add_message(user_id, text), as line 266 calls it.
LifeSuggest(u) ==
    /\ session = 1
    /\ ~hadVoting
    /\ Len(messages) < MaxLifeTopics
    /\ add_message(u)
    /\ UNCHANGED <<now, timers, cthread, history>>
    /\ UNCHANGED integrations

\* stop_gathering(), as line 186 and check_expiry (line 111) call it.
LifeStopGathering ==
    /\ active
    /\ stop_gathering
    /\ UNCHANGED <<now, timers, cthread, history>>
    /\ UNCHANGED integrations

\* start_voting(store.voting_duration_minutes), as lines 195-196 call it
\* when topics were collected.
LifeStartVoting ==
    /\ session = 1
    /\ ~active
    /\ end_time = NoTime
    /\ ~hadVoting
    /\ Len(messages) > 0
    /\ start_voting(voting_duration_minutes)
    /\ hadVoting' = TRUE
    /\ UNCHANGED <<now, timers, cthread, session, endedPosts, votingStarts,
                   votingTimers, resultsPosts, gPayloads, vPayloads, gStopped>>
    /\ UNCHANGED integrations

\* add_vote(user_id, topic_index), as line 287 calls it; any index.
LifeVote(u, i) ==
    /\ hadVoting
    /\ voting_end_time # NoTime
    /\ \A k \in DOMAIN messages : messages[k].votes < MaxVotes
    /\ add_vote(u, i)
    /\ UNCHANGED <<now, timers, cthread, history>>
    /\ UNCHANGED integrations

\* stop_voting(), as line 201 and check_voting_expiry (line 156) call it.
LifeStopVoting ==
    /\ voting_active
    /\ stop_voting
    /\ UNCHANGED <<now, timers, cthread, history>>
    /\ UNCHANGED integrations

\* The clock runs until the pass is called.
LifeTick == ppc = "idle" /\ Tick

\* store.messages as the pass reads it: every TopicMessage with its text and
\* its timestamp ts[i].
Snapshot(ts) ==
    [i \in DOMAIN messages |->
        [user_id |-> messages[i].user_id, text |-> "a", timestamp |-> ts[i],
         votes |-> messages[i].votes]]

\* A pass that sorts the list it was given (topics.sort) and so reorders
\* store.messages, the same list.
LifePass_sorts_in_place ==
    /\ hadVoting
    /\ ~is_voting_active
    /\ ppc = "idle"
    /\ \E ts \in [DOMAIN messages -> Timestamps] :
          /\ \A i, j \in DOMAIN ts : i < j => ts[i] <= ts[j]
          /\ LET ranked == sorted_by_votes(Snapshot(ts), Len(messages)) IN
             /\ topics' = [k \in DOMAIN messages |-> Snapshot(ts)[ranked[k]]]
             /\ messages' = [k \in DOMAIN messages |-> messages[ranked[k]]]
    /\ votes_by_user' = user_votes
    /\ top_topics_count' \in TopCounts
    /\ slots' \in SlotConfigs
    /\ sorted_topics' = [k \in DOMAIN messages |-> k]
    /\ top_topics' = slice(sorted_topics', top_topics_count')
    /\ created_events' = <<>>
    /\ done' = 0
    /\ passes' = passes + 1
    /\ ppc' = "L57"
    /\ UNCHANGED iterations
    /\ UNCHANGED <<active, end_time, channel_id, current_timer, voting_active,
                   voting_end_time, current_voting_timer, user_votes,
                   voting_duration_minutes>>
    /\ UNCHANGED <<now, timers, cthread, history, resolver>>

\* create_events_for_winning_topics(store.messages, store.user_votes) once
\* voting is over: lines 48-54 on the session's topics and ledger.
LifePass ==
    /\ hadVoting
    /\ ~is_voting_active
    /\ ppc = "idle"
    /\ \E ts \in [DOMAIN messages -> Timestamps] :
          /\ \A i, j \in DOMAIN ts : i < j => ts[i] <= ts[j]
          /\ topics' = Snapshot(ts)
    /\ votes_by_user' = user_votes
    /\ top_topics_count' \in TopCounts
    /\ slots' \in SlotConfigs
    /\ sorted_topics' = sorted_by_votes(topics', Len(topics'))
    /\ top_topics' = slice(sorted_topics', top_topics_count')
    /\ created_events' = <<>>
    /\ done' = 0
    /\ passes' = passes + 1
    /\ ppc' = "L57"
    /\ UNCHANGED iterations
    /\ UNCHANGED <<now, store, timers, cthread, history, resolver>>

\* ------------------------------------------------------ the specification

\* The store after __init__, no timer, the listener thread idle.
SessionInit ==
    /\ now = 0
    /\ active = FALSE
    /\ end_time = NoTime
    /\ channel_id = NoChannel
    /\ messages = <<>>
    /\ current_timer = NoTimer
    /\ voting_active = FALSE
    /\ voting_end_time = NoTime
    /\ current_voting_timer = NoTimer
    /\ user_votes = [u \in Users |-> {}]
    /\ voting_duration_minutes = NoTime
    /\ timers = [i \in {} |-> NewTimer("gathering", 0)]
    /\ cpc = "idle"
    /\ cmd = NoCmd
    /\ resp = "none"
    /\ ret = "none"
    /\ cdur = 0
    /\ session = 0
    /\ endedPosts = 0
    /\ votingStarts = 0
    /\ votingTimers = 0
    /\ resultsPosts = 0
    /\ gPayloads = 0
    /\ vPayloads = 0
    /\ gStopped = FALSE
    /\ hadVoting = FALSE

\* No scheduling pass has been called.
HandlerIdle ==
    /\ ppc = "idle"
    /\ sorted_topics = <<>>
    /\ top_topics = <<>>
    /\ done = 0
    /\ created_events = <<>>
    /\ iterations = <<>>
    /\ passes = 0

ResolverIdle ==
    /\ slot = NoSlot
    /\ start_datetime = NoDatetime
    /\ end_datetime = NoDatetime

\* The bot: forum_command.py and the timers never call the calendar handler.
Init ==
    /\ SessionInit
    /\ HandlerIdle
    /\ topics = <<>>
    /\ votes_by_user = [u \in Users |-> {}]
    /\ top_topics_count = 0
    /\ slots = <<>>
    /\ ResolverIdle
    /\ today = 0
    /\ daytime = 0

Next ==
    \/ Tick
    \/ \E c \in Commands : BeginCommand(c)
    \/ CmdCheckExpiry("L124", "L124s", "L142")
    \/ CmdExpiryStop
    \/ CmdStartVoting("L134", "L139")
    \/ CmdScheduleVoting("L139", "L142", "")
    \/ CmdCheckVotingExpiry
    \/ CmdVotingExpiryStop
    \/ CmdStartCheckActive
    \/ CmdStartCheckVoting
    \/ CmdStartGathering
    \/ CmdScheduleExpiry
    \/ CmdStopCheckActive
    \/ CmdStopGathering
    \/ CmdStartVoting("L196", "L198")
    \/ CmdScheduleVoting("L198", "done", "")
    \/ CmdStopCheckVoting
    \/ CmdStopVoting
    \/ CmdStatusCheckActive
    \/ CmdStatusCheckVoting
    \/ CmdSuggestCheckVoting
    \/ CmdCheckExpiry("L234", "L234s", "L254")
    \/ CmdSuggestExpiryStop
    \/ CmdStartVoting("L244", "L247")
    \/ CmdScheduleVoting("L247", "done", "expired")
    \/ CmdSuggestCheckActive
    \/ CmdAddMessage
    \/ CmdVoteCheck
    \/ CmdAddVote
    \/ CmdReturn
    \/ \E t \in DOMAIN timers :
          \/ HandleExpiry(t)
          \/ TimerExpiryStop(t)
          \/ TimerStartVoting(t)
          \/ TimerScheduleVoting(t)
          \/ HandleVotingExpiry(t)
          \/ TimerVotingStop(t)

Spec == Init /\ [][Next]_vars

\* One call of create_events_for_winning_topics, on any topics, ledger, top
\* count and slot configuration.
PassInit ==
    /\ SessionInit
    /\ HandlerIdle
    /\ topics \in TopicLists
    /\ votes_by_user \in Ledgers(Len(topics))
    /\ top_topics_count \in TopCounts
    /\ slots \in SlotConfigs
    /\ ResolverIdle
    /\ today = 0
    /\ daytime = 0

PassNext ==
    \/ CreateEvents
    \/ LoopTopic

PassSpec == PassInit /\ [][PassNext]_vars

\* One call of get_datetime_for_slot, at any date and time of day, for any
\* slot of a day of the week.
DayTimes == {0, 9 * 60 + 30, 23 * 60 + 59}

SlotInit ==
    /\ SessionInit
    /\ HandlerIdle
    /\ topics = <<>>
    /\ votes_by_user = [u \in Users |-> {}]
    /\ top_topics_count = 0
    /\ slots = <<>>
    /\ ResolverIdle
    /\ today \in 0..MaxDay
    /\ daytime \in DayTimes

SlotNext == \E sl \in WeekSlots : ResolveSlot(sl)

SlotSpec == SlotInit /\ [][SlotNext]_vars

\* One session from start to close, the clock running, then one scheduling
\* pass on what the session holds.
LifeNext ==
    \/ LifeTick
    \/ LifeStart
    \/ \E u \in Users : LifeSuggest(u)
    \/ LifeStopGathering
    \/ LifeStartVoting
    \/ \E u \in Users, i \in 0..MaxLifeTopics : LifeVote(u, i)
    \/ LifeStopVoting
    \/ LifePass
    \/ LoopTopic

LifeSpec == Init /\ [][LifeNext]_vars

\* ---------------------------------------------------------------- claims

\* A step of the listener thread.
CmdStep == cpc' # cpc

\* C1: in every reachable state is_active() and is_voting_active() are never
\* both true.
C1_NeverGatheringAndVoting == ~(is_active /\ is_voting_active)

\* The fields of the session that a rejected request must leave alone.
SessionData == <<messages, user_votes, end_time, voting_end_time, channel_id,
                 voting_duration_minutes, current_timer, current_voting_timer,
                 timers>>

\* C2: when the start branch finds the session in Gathering or in Voting it
\* answers "already active" and returns, and topics, ledger, tallies,
\* deadlines, channel and timers are what they were.
C2_StartRejectedWhileRunning ==
    [][(CmdStep /\ ((cpc = "L157" /\ is_active)
                     \/ (cpc = "L157v" /\ is_voting_active)))
         => (/\ cpc' = "done"
             /\ resp' = "already_active"
             /\ UNCHANGED SessionData)]_vars

C2_Witness ==
    /\ cpc = "done"
    /\ cmd.kind = "start"
    /\ resp = "already_active"
    /\ is_voting_active
    /\ Len(messages) > 0

\* C3: the check_expiry (check_voting_expiry) call that returns the payload
\* leaves the store so that the next call returns None, and a call that
\* returns None changes nothing in the store.
C3_ExpiryCheckIdempotent ==
    [][/\ (CmdStep /\ cpc \in {"L124", "L234"} /\ ExpiryCond)
             => cpc' \in {"L124s", "L234s"}
       /\ (CmdStep /\ cpc \in {"L124s", "L234s"})
             => (gPayloads' = gPayloads + 1 /\ ~active' /\ end_time' = NoTime)
       /\ (CmdStep /\ cpc = "L142" /\ VotingExpiryCond) => cpc' = "L142s"
       /\ (CmdStep /\ cpc = "L142s")
             => (/\ vPayloads' = vPayloads + 1
                 /\ ~voting_active'
                 /\ voting_end_time' = NoTime)
       /\ gPayloads' = gPayloads + 1 => ~ExpiryCond'
       /\ vPayloads' = vPayloads + 1 => ~VotingExpiryCond'
       /\ (CmdStep /\ cpc \in {"L124", "L234"} /\ ~ExpiryCond)
             => UNCHANGED <<store, timers, history>>
       /\ (CmdStep /\ cpc = "L142" /\ ~VotingExpiryCond)
             => UNCHANGED <<store, timers, history>>
       /\ (\E t \in DOMAIN timers :
              /\ timers[t].pc = "armed"
              /\ timers' = Remove(timers, t)
              /\ current_timer' = current_timer
              /\ current_voting_timer' = current_voting_timer)
             => UNCHANGED <<store, history>>]_vars

C3_Witness ==
    /\ ret = "None_again"
    /\ cpc = "L142"
    /\ gPayloads = 1
    /\ ~active
    /\ now > 0

\* C4: when a gathering deadline has passed without a stop, exactly one
\* expiry check has returned the payload once no check is pending any more.
C4_PayloadExactlyOnce ==
    (/\ session >= 1
     /\ ~gStopped
     /\ ~active
     /\ cpc = "idle"
     /\ DOMAIN timers = {})
       => gPayloads = 1

\* C5: for one gathering phase the topics are announced at most once, voting
\* is started at most once and at most one voting timer is armed; for one
\* voting phase the results are announced at most once.
C5_PhaseEndedOnce ==
    /\ endedPosts <= 1
    /\ votingStarts <= 1
    /\ votingTimers <= 1
    /\ resultsPosts <= 1

\* C6: add_vote(u, t) for a pair (u, t) already in the ledger changes neither
\* the tally of t nor the vote set of u.
C6_VoteIdempotent ==
    [][(/\ cpc = "L287"
        /\ CmdStep
        /\ (cmd.idx - 1) \in user_votes[cmd.user])
         => (messages' = messages /\ user_votes' = user_votes)]_vars

\* C7: a topic is appended only by an add_message call made while the session
\* is in Gathering and now is not past the deadline; a call made past the
\* deadline returns False and appends nothing.
C7_NoTopicAfterDeadline ==
    [][/\ Len(messages') > Len(messages)
             => (cpc = "L266" /\ active /\ ~GatheringExpired /\ ret' = "True")
       /\ (cpc = "L266" /\ CmdStep /\ (~active \/ GatheringExpired))
             => (ret' = "False" /\ messages' = messages)]_vars

C7_Witness ==
    /\ cpc = "done"
    /\ cmd.kind = "suggest"
    /\ ret = "False"
    /\ end_time # NoTime
    /\ now > end_time
    /\ gPayloads = 0

\* C8: an add_vote call made past the voting deadline returns False and
\* changes no tally and no vote set.
C8_NoVoteAfterDeadline ==
    [][(cpc = "L287" /\ CmdStep /\ VotingExpired)
         => (/\ ret' = "False"
             /\ messages' = messages
             /\ user_votes' = user_votes)]_vars

C8_Witness ==
    /\ cpc = "done"
    /\ cmd.kind = "vote"
    /\ ret = "False"
    /\ voting_end_time # NoTime
    /\ now > voting_end_time
    /\ vPayloads = 0

\* A tally or a vote set grows.
VoteRecorded ==
    \/ \E u \in Users : ~(user_votes'[u] \subseteq user_votes[u])
    \/ \E i \in DOMAIN messages \cap DOMAIN messages' :
          messages'[i].votes > messages[i].votes

C10_NoPhaseSkipped ==
    [][(session' = session + 1 /\ Len(messages) > 0) => hadVoting]_vars

\* A step that calls start_voting: lines 134, 196 and 244 of the handler and
\* line 73 of handle_expiry.
StartVotingStep ==
    \/ CmdStep /\ cpc \in {"L134", "L196", "L244"}
    \/ \E t \in DOMAIN timers :
          /\ timers[t].pc = "L73"
          /\ t \in DOMAIN timers'
          /\ timers'[t].pc = "L78"

\* C11: start_voting is executed only right after the gathering phase ended:
\* never while the session is in Gathering and never while it is in Voting.
C11_VotingOnlyAfterGathering ==
    [][StartVotingStep => (~is_active /\ ~is_voting_active)]_vars

\* C12: in every reachable state in which the session is in Gathering the
\* voting deadline is unset.
C12_GatheringHasNoVotingDeadline == is_active => voting_end_time = NoTime

\* A step of the callback of timer t (its wake-up included).
TimerStep(t) ==
    /\ ~CmdStep
    /\ now' = now
    /\ t \notin DOMAIN timers' \/ timers'[t] # timers[t]

\* C13: once /forum stop has ended the gathering phase, a step of a gathering
\* timer's callback posts nothing, starts no voting, arms no timer and leaves
\* the session as it is.
C13_StoppedTimerIsNoOp ==
    [][\A t \in DOMAIN timers :
          (gStopped /\ timers[t].kind = "gathering" /\ TimerStep(t))
             => (/\ UNCHANGED <<endedPosts, resultsPosts>>
                 /\ UNCHANGED <<votingStarts, votingTimers>>
                 /\ DOMAIN timers' \subseteq DOMAIN timers
                 /\ UNCHANGED store)]_vars

\* The voting phase of the session was started and has been closed by
\* stop_voting (/forum stop or an expiry check).
VotingClosed == hadVoting /\ ~voting_active /\ voting_end_time = NoTime

\* C14: once a voting phase has been closed, a scheduling pass
\* (create_events_for_winning_topics) has been run.
C14_SchedulingPassOnClose == VotingClosed => passes >= 1

\* C15: sorted_topics holds every topic once, ordered by tally descending, and
\* two topics of equal tally are in the order they were submitted in.
C15_RankingStable ==
    ppc # "idle" =>
        /\ Len(sorted_topics) = Len(topics)
        /\ {sorted_topics[k] : k \in DOMAIN sorted_topics} = DOMAIN topics
        /\ \A i, j \in DOMAIN sorted_topics :
              i < j =>
                 LET a == topics[sorted_topics[i]]
                     b == topics[sorted_topics[j]]
                 IN /\ a.votes >= b.votes
                    /\ a.votes = b.votes => sorted_topics[i] < sorted_topics[j]

C15_Witness ==
    /\ Returned
    /\ sorted_topics = <<2, 3, 1>>
    /\ topics[2].votes = topics[3].votes

\* The smaller of two numbers.
Min(a, b) == IF a <= b THEN a ELSE b

\* C16: with top count K and n topics the pass selects the first min(K, n)
\* topics of the ranking and no other, and returns at most one event for each
\* of them, in their order.
C16_TopKSelection ==
    ppc # "idle" =>
        LET m == Min(top_topics_count, Len(topics)) IN
        /\ Len(top_topics) = m
        /\ \A k \in 1..m : top_topics[k] = sorted_topics[k]
        /\ Len(created_events) <= m
        /\ \A e \in DOMAIN created_events :
              \E k \in 1..m :
                 /\ created_events[e].topic = top_topics[k]
                 /\ k >= e
                 /\ \A f \in 1..(e - 1) :
                       \E l \in 1..(k - 1) :
                          created_events[f].topic = top_topics[l]

C16_Witness ==
    /\ Returned
    /\ Len(topics) = 3
    /\ top_topics_count = 2
    /\ Len(created_events) = 2
    /\ top_topics = <<3, 1>>

\* C17: the attendees of every topic the loop takes are the users whose
\* ledger entry holds that topic's own index, and the topic's author.
C17_AttendeesOfOwnIndex ==
    \A k \in DOMAIN iterations :
       LET p == iterations[k].topic IN
       iterations[k].attendees =
          {u \in Users : (p - 1) \in votes_by_user[u]} \cup {topics[p].user_id}

\* The turns of the loop in which no gateway call failed for the pass (none
\* returned None, none raised).
Succeeded ==
    SelectSeq(iterations, LAMBDA it : it.outcome \in {"event", "link_empty"})

C19_EmptySlotsSkipAll ==
    slots = <<>> =>
        /\ created_events = <<>>
        /\ \A k \in DOMAIN iterations : iterations[k].outcome = "no_slot"
        /\ Returned => Len(iterations) = Min(top_topics_count, Len(topics))

C19_Witness ==
    /\ Returned
    /\ slots = <<>>
    /\ Len(iterations) = 2
    /\ Len(topics) = 3
    /\ created_events = <<>>

\* Minutes from the start of day 0 to a datetime.
Minutes(dt) == (dt.date * 24 + dt.hour) * 60 + dt.minute

\* C20: the start a slot resolves to is 1 to 7 days after today, 7 when today
\* is the slot's day of the week, on the slot's day of the week, and later
\* than now.
C20_SlotStrictlyFuture ==
    slot # NoSlot =>
        LET ahead == start_datetime.date - today IN
        /\ ahead \in 1..7
        /\ weekday(start_datetime.date) = day_mapping[slot.day_of_week]
        /\ weekday(today) = day_mapping[slot.day_of_week] => ahead = 7
        /\ Minutes(start_datetime) > today * 24 * 60 + daytime
        /\ end_datetime.date = start_datetime.date

C20_Witness ==
    /\ slot # NoSlot
    /\ weekday(today) = day_mapping[slot.day_of_week]
    /\ daytime = 0
    /\ slot.start_time = <<2, 3, 5, 9>>
    /\ start_datetime = [date |-> today + 7, hour |-> 23, minute |-> 59]

\* Every topic's tally is the number of users who voted for it.
TalliesMatch ==
    \A i \in DOMAIN messages :
       messages[i].votes = Cardinality(VotersOf(i - 1))

\* A step that counts a vote of a user for a topic that user voted for before.
RepeatedVote ==
    \E u \in Users, i \in DOMAIN messages :
       /\ (i - 1) \in user_votes[u]
       /\ i \in DOMAIN messages'
       /\ messages'[i].votes > messages[i].votes
       /\ user_votes' = user_votes

\* C21: through a lifecycle in which no user votes twice for a topic, every
\* topic's tally stays the number of users who voted for it (0 for a topic
\* nobody voted for); and a pass with top count 1 on the closed session selects
\* one topic, no topic has a higher tally, and its attendees are the users who
\* voted for it and its author.
C21_LifecycleTalliesAndWinner ==
    /\ TalliesMatch
    /\ [][(TalliesMatch /\ ~RepeatedVote) => TalliesMatch']_vars
    /\ [](ppc # "idle" =>
            /\ Len(topics) = Len(messages)
            /\ \A i \in DOMAIN messages :
                  /\ topics[i].votes = messages[i].votes
                  /\ topics[i].user_id = messages[i].user_id
            /\ votes_by_user = user_votes)
    /\ []((Returned /\ top_topics_count = 1 /\ Len(messages) > 0) =>
            /\ Len(top_topics) = 1
            /\ Len(iterations) = 1
            /\ iterations[1].topic = top_topics[1]
            /\ \A j \in DOMAIN messages :
                  messages[j].votes <= messages[top_topics[1]].votes
            /\ iterations[1].attendees =
                  VotersOf(top_topics[1] - 1)
                     \cup {messages[top_topics[1]].user_id})

C21_Witness ==
    /\ Returned
    /\ top_topics_count = 1
    /\ Len(messages) = 2
    /\ messages[1].votes = 0
    /\ messages[2].votes = 2
    /\ messages[2].user_id = "U2"
    /\ TalliesMatch
    /\ top_topics = <<2>>
    /\ iterations[1].attendees = {"U1", "U2"}
    /\ ~voting_active
    /\ voting_end_time = NoTime

\* C22: the start_gathering call of an accepted /forum start leaves no topic
\* and no vote, the gathering deadline at now + the gathering minutes given,
\* the voting minutes given stored, and the session in Gathering and not in
\* Voting.
C22_StartResetsSession ==
    [][(CmdStep /\ cpc = "L163") =>
          /\ messages' = <<>>
          /\ \A u \in Users : user_votes'[u] = {}
          /\ end_time' = now + cmd.g
          /\ voting_duration_minutes' = cmd.v
          /\ channel_id' = Channel
          /\ is_active'
          /\ ~is_voting_active']_vars

C22_Witness ==
    /\ cpc = "L166"
    /\ session = 2
    /\ voting_end_time # NoTime
    /\ cmd.g = 1
    /\ end_time = now + 1
    /\ messages = <<>>

\* The authors of the topics, in order (the text goes with the author).
TopicSequence == [i \in DOMAIN messages |-> messages[i].user_id]

\* C23: within one session a tally changes only in a step taken while the
\* session is in Voting; from the end of gathering to the next start_gathering
\* the sequence of topics does not change; and while the session is in
\* Gathering every tally is 0 and the ledger is empty.
C23_TopicsFrozenVotesOnlyInVoting ==
    /\ [][(\E i \in DOMAIN messages \cap DOMAIN messages' :
              messages'[i].votes # messages[i].votes)
            => is_voting_active]_vars
    /\ [][(~is_active /\ session' = session)
            => TopicSequence' = TopicSequence]_vars
    /\ [](is_active =>
            /\ \A i \in DOMAIN messages : messages[i].votes = 0
            /\ \A u \in Users : user_votes[u] = {})

\* C24: the call of a scheduling pass and every step until it has returned
\* leave the session's topics (order, authors, tallies) and ledger as they are,
\* and the lists the pass was given still are the session's when it returns,
\* whatever the gateway did.
C24_PassLeavesSession ==
    /\ [][(ppc # "idle" \/ ppc' # "idle") =>
             /\ messages' = messages
             /\ user_votes' = user_votes]_vars
    /\ [][ppc # "idle" => UNCHANGED <<topics, votes_by_user>>]_vars
    /\ [](Returned =>
            /\ [i \in DOMAIN topics |-> topics[i].user_id] = TopicSequence
            /\ [i \in DOMAIN topics |-> topics[i].votes]
                  = [i \in DOMAIN messages |-> messages[i].votes]
            /\ votes_by_user = user_votes)

C24_Witness ==
    /\ Returned
    /\ Len(messages) = 2
    /\ messages[1].votes < messages[2].votes
    /\ user_votes["U1"] = {1}
    /\ Len(iterations) = 2
    /\ iterations[1].outcome = "event"
    /\ iterations[2].outcome = "raises"
    /\ Len(created_events) = 1

\* C25: a scheduling pass never leaves by an exception: whatever the slot
\* (none, an unknown day name, a malformed time) and the gateway (None, no
\* token, no link, no token for the link) do for each topic, every selected
\* topic gets its one turn, the loop can always go on until the pass returns
\* its list, a topic with such a failure has no entry in it, and every other
\* topic taken has its entry.
C25_PassNeverRaises ==
    /\ ppc \in {"idle", "L57"}
    /\ done <= Len(top_topics)
    /\ Len(iterations) = done
    /\ (ppc = "L57" /\ ~Returned) => ENABLED LoopTopic
    /\ \A k \in DOMAIN iterations :
          LET failed == iterations[k].outcome \in
                           {"no_slot", "bad_slot", "None", "raises",
                            "link_raises"}
              entries == {e \in DOMAIN created_events :
                             created_events[e].topic = iterations[k].topic}
          IN /\ iterations[k].topic = top_topics[k]
             /\ failed => entries = {}
             /\ ~failed => Cardinality(entries) = 1

C25_Witness ==
    /\ Returned
    /\ Len(iterations) = 2
    /\ iterations[1].outcome = "bad_slot"
    /\ iterations[2].outcome = "link_raises"
    /\ created_events = <<>>
    /\ Len(topics) = 3

\* C26: the handler answers "Your topic has been recorded" only when
\* add_message appended the topic, and "You voted for topic n" only when
\* add_vote counted the vote.
C26_AckOnlyIfAccepted ==
    /\ resp = "recorded" => ret = "True"
    /\ resp = "voted" => ret = "True"

\* The timers of a kind that are armed: started, not cancelled, not woken up.
Pending(kind) ==
    {t \in DOMAIN timers : timers[t].kind = kind /\ timers[t].pc = "armed"}

\* C27: at most one gathering timer and at most one voting timer are pending,
\* and a pending timer is the one current_timer / current_voting_timer holds.
C27_PendingTimerIsCurrent ==
    /\ Cardinality(Pending("gathering")) <= 1
    /\ Cardinality(Pending("voting")) <= 1
    /\ \A t \in Pending("gathering") : t = current_timer
    /\ \A t \in Pending("voting") : t = current_voting_timer

\* C28: a phase that is active before a step and not after it was ended by
\* the stop command (lines 186 and 201), or now is past the deadline the phase
\* had.
C28_NoEarlyEnd ==
    [][/\ (is_active /\ ~is_active')
             => ((CmdStep /\ cpc = "L186") \/ now' > end_time)
       /\ (is_voting_active /\ ~is_voting_active')
             => ((CmdStep /\ cpc = "L201") \/ now' > voting_end_time)]_vars

\* No command is being handled and no timer is armed or running its callback:
\* without a further command nothing happens any more.
Quiescent == cpc = "idle" /\ DOMAIN timers = {}

\* No deadline is still to come.
DeadlinesOver ==
    /\ end_time = NoTime \/ now > end_time
    /\ voting_end_time = NoTime \/ now > voting_end_time

\* C29: when a started session has come to rest (every timer has fired, no
\* command is left, no deadline is to come), neither phase is active, and if a
\* topic was collected the voting results have been announced.
C29_SessionEndsWithResults ==
    (session >= 1 /\ Quiescent /\ DeadlinesOver) =>
        /\ ~is_active
        /\ ~is_voting_active
        /\ Len(messages) > 0 => resultsPosts >= 1

\* C30: every index in a user's vote set is an index of the topic list
\* (counted from 0).
C30_LedgerIndicesValid ==
    \A u \in Users : \A i \in user_votes[u] : 0 <= i /\ i < Len(messages)

C30_Witness ==
    /\ session = 2
    /\ Len(messages) = 1
    /\ user_votes = [u \in Users |-> IF u = "U2" THEN {0} ELSE {}]
    /\ cpc = "done"
    /\ cmd.kind = "vote"
    /\ cmd.idx = 2
    /\ resp = "invalid_number"

\* The topics (positions in the topic list) of the events entered so far.
EventTopics == [e \in DOMAIN created_events |-> created_events[e].topic]

\* C31: the event list of a scheduling pass is a subsequence of the selected
\* topics: its events map, one to one and in order, to positions of the
\* selection that the loop has already taken, so no selected position has two
\* events; and it is in ranked order: an earlier event's topic has at least
\* the tally of a later one's, and with equal tallies it was suggested first.
C31_EventsAreRankedSubsequence ==
    /\ \E f \in [DOMAIN created_events -> DOMAIN top_topics] :
          /\ \A e \in DOMAIN created_events :
                f[e] <= done /\ top_topics[f[e]] = EventTopics[e]
          /\ \A d, e \in DOMAIN created_events : d < e => f[d] < f[e]
    /\ \A d, e \in DOMAIN created_events :
          d < e =>
             /\ EventTopics[d] # EventTopics[e]
             /\ topics[EventTopics[d]].votes >= topics[EventTopics[e]].votes
             /\ topics[EventTopics[d]].votes = topics[EventTopics[e]].votes
                   => EventTopics[d] < EventTopics[e]

C31_Witness ==
    /\ Returned
    /\ Len(topics) = 3
    /\ topics[1].votes = 0
    /\ topics[2].votes = 1
    /\ topics[3].votes = 1
    /\ top_topics = <<2, 3>>
    /\ EventTopics = <<2, 3>>
    /\ created_events[1].event_link = ""
    /\ created_events[2].event_link = "link"
    /\ Cardinality(created_events[1].attendees) = 2

====
